---- MODULE Spec2Model ----
(***************************************************************************)
(* A model of the HugeInt class (src/HugeInt.h, src/HugeInt.cpp): a        *)
(* fixed-width signed integer held as numDigits_ digits of radix base_,    *)
(* negative values in radix complement.                                    *)
(*                                                                         *)
(* The source has 32-bit digits, 64-bit scratch words and 300 digits.  The *)
(* model keeps every ratio of the source (a scratch word is two digits     *)
(* wide, long long is two digits wide) and scales the digit width to       *)
(* DigitBits bits and the digit count to numDigits_, so that TLC can       *)
(* enumerate operands.  Every truncation of the source (a store into a     *)
(* uint32_t, a wrap of a uint64_t or int64_t) is a "%" here.               *)
(*                                                                         *)
(* A HugeInt is a function from the digit index 0..numDigits_-1 (index 0   *)
(* the least significant digit, as in the source) to a digit.              *)
(***************************************************************************)
EXTENDS Integers, Sequences, FiniteSets, TLC

\* ------------------------------------------------------------------ bounds
\* Bits per digit (32 in the source: std::uint32_t).
DigitBits == 4
\* Number of digits of a HugeInt (300 in the source).
numDigits_ == 5
\* Half-width of the windows of values drawn around each pivot value.
InputSpread == 2
\* Longest decimal string handed to the string constructor.
MaxStrLen == 4

\* ------------------------------------------------------------ machine words
RECURSIVE Pow(_, _)
Pow(x, n) == IF n = 0 THEN 1 ELSE x * Pow(x, n - 1)

\* base_{1ULL << 32}: the radix, one more than the largest digit.
base_ == Pow(2, DigitBits)
\* One more than the largest std::uint64_t: a scratch word is two digits wide.
Wide == base_ * base_

\* Conversion to std::uint32_t, std::uint64_t and std::int64_t.
U32(v) == v % base_
U64(v) == v % Wide
S64(v) == ((v + Wide \div 2) % Wide) - Wide \div 2

\* x >> n and x << n on an unsigned 64-bit word.
ShiftRight(x, n) == x \div Pow(2, n)
ShiftLeft64(x, n) == U64(x * Pow(2, n))

\* Bitwise or / and of two non-negative words.
RECURSIVE BitOr(_, _)
BitOr(x, y) ==
    IF x = 0 THEN y
    ELSE IF y = 0 THEN x
    ELSE (IF x % 2 = 1 \/ y % 2 = 1 THEN 1 ELSE 0) + 2 * BitOr(x \div 2, y \div 2)

Idx == 0 .. (numDigits_ - 1)
Digits == 0 .. (base_ - 1)

\* long long int: two digits wide, two's complement.
LLONG_MIN == -(Wide \div 2)
LLONG_MAX == (Wide \div 2) - 1
LongLongs == LLONG_MIN .. LLONG_MAX

\* ------------------------------------------------- digit storage & encoding
\* HugeInt() = default, with digits_[numDigits_]{0}.
HugeIntDefault == [i \in Idx |-> 0]

\* The loop "for ( ; i > 0 && x[i - 1] == 0; --i);" started at i: the number
\* of significant digits of x among its first i.
RECURSIVE SignificantDigits(_, _)
SignificantDigits(x, i) ==
    IF i > 0 /\ x[i - 1] = 0 THEN SignificantDigits(x, i - 1) ELSE i

isZero(x) == SignificantDigits(x, numDigits_) = 0

isNegative(x) == x[numDigits_ - 1] >= base_ \div 2

\* The loop of radixComplement from iteration i on.
RECURSIVE RadixComplementLoop(_, _, _)
RadixComplementLoop(digits, sum, i) ==
    IF i < numDigits_
    THEN LET s == U64(sum + ((base_ - 1) - digits[i]))
         IN  RadixComplementLoop([digits EXCEPT ![i] = U32(s)],
                                 ShiftRight(s, DigitBits), i + 1)
    ELSE digits

\* radixComplement with the wrong guard: only a negative number is complemented.
radixComplement_guard_negative(x) ==
    IF isNegative(x) THEN RadixComplementLoop(x, 1, 0) ELSE x

radixComplement(x) ==
    IF ~isZero(x) THEN RadixComplementLoop(x, 1, 0) ELSE x

\* HugeInt HugeInt::operator-() const
op_neg(x) == radixComplement(x)

\* ----------------------------------------------------------- linear arithmetic
\* The loop of operator+ from iteration i on.
RECURSIVE PlusLoop(_, _, _, _, _)
PlusLoop(a, b, sum, partial, i) ==
    IF i < numDigits_
    THEN LET p == U64(partial + (a[i] + b[i]))
         IN  PlusLoop(a, b, [sum EXCEPT ![i] = U32(p)], ShiftRight(p, DigitBits), i + 1)
    ELSE sum

\* operator+ without the carry between digits.
op_plus_no_carry(a, b) == [i \in Idx |-> U32(a[i] + b[i])]

op_plus(a, b) == PlusLoop(a, b, HugeIntDefault, 0, 0)

\* operator- adding the digit-wise complement of b, without the one that
\* makes it the radix complement.
op_minus_ones_complement(a, b) == op_plus(a, [i \in Idx |-> (base_ - 1) - b[i]])

op_minus(a, b) == op_plus(a, op_neg(b))

\* The loop of shortMultiply from iteration i on.
RECURSIVE ShortMultiplyLoop(_, _, _, _, _)
ShortMultiplyLoop(x, multiplier, product, partial, i) ==
    IF i < numDigits_
    THEN LET p == U64(partial + U64(x[i] * multiplier))
         IN  ShortMultiplyLoop(x, multiplier, [product EXCEPT ![i] = U32(p)],
                               ShiftRight(p, DigitBits), i + 1)
    ELSE product

\* shortMultiply without the carry between digits.
shortMultiply_no_carry(x, multiplier) ==
    [i \in Idx |-> U32(U64(x[i] * U32(multiplier)))]

\* The parameter is a std::uint32_t: the argument is converted at the call.
shortMultiply(x, multiplier) ==
    ShortMultiplyLoop(x, U32(multiplier), HugeIntDefault, 0, 0)

\* shiftLeftDigits: both loops together.  The first runs i downwards, so each
\* digits_[i] is read before digits_[i] is overwritten.
shiftLeftDigits(x, num) ==
    IF num = 0 THEN x
    ELSE [i \in Idx |-> IF i < num THEN 0 ELSE x[i - num]]

\* ------------------------------------------------------- long multiplication
\* The loop of operator* from iteration i on.
RECURSIVE TimesLoop(_, _, _, _)
TimesLoop(a, b, product, i) ==
    IF i < numDigits_
    THEN TimesLoop(a, b,
                   op_plus(product, shiftLeftDigits(shortMultiply(a, b[i]), i)),
                   i + 1)
    ELSE product

op_times(a, b) == TimesLoop(a, b, HugeIntDefault, 0)

\* ---------------------------------------------------------------- comparison
op_eq(lhs, rhs) == isZero(op_minus(rhs, lhs))
op_ne(lhs, rhs) == ~op_eq(rhs, lhs)
op_lt(lhs, rhs) == isNegative(op_minus(lhs, rhs))
op_gt(lhs, rhs) == op_lt(rhs, lhs)
op_le(lhs, rhs) == ~op_gt(lhs, rhs)
op_ge(lhs, rhs) == ~op_lt(lhs, rhs)

\* ------------------------------------------------------------- construction
\* std::llabs(x) for every x but LLONG_MIN, whose absolute value is not a
\* long long: that call is undefined, and the set holds every value it may
\* then leave in xp.
llabs(x) == IF x < 0 THEN -x ELSE x
LlabsOutcomes(x) == IF x = LLONG_MIN THEN LongLongs ELSE {llabs(x)}

\* The loop "while (xp > 0) { digits_[i++] = xp % base_; xp /= base_; }".
RECURSIVE ExtractDigits(_, _, _)
ExtractDigits(digits, xp, i) ==
    IF xp > 0
    THEN ExtractDigits([digits EXCEPT ![i] = U32(U64(xp) % base_)],
                       S64(U64(xp) \div base_), i + 1)
    ELSE digits

\* HugeInt::HugeInt(long long int x), with xp the value llabs left.
HugeIntFromAbs(x, xp) ==
    IF x = 0 THEN HugeIntDefault
    ELSE IF x < 0 THEN radixComplement(ExtractDigits(HugeIntDefault, xp, 0))
    ELSE ExtractDigits(HugeIntDefault, xp, 0)

\* The conversion of a literal (0, 1LL, 10, ...), none of which is LLONG_MIN.
HugeInt_ll(x) == HugeIntFromAbs(x, llabs(x))

\* operator-- (prefix): *this = *this - 1LL.
op_decrement(x) == op_minus(x, HugeInt_ll(1))
\* operator++ (prefix): *this = *this + 1LL.
op_increment(x) == op_plus(x, HugeInt_ll(1))

getMinimum == [HugeIntDefault EXCEPT ![numDigits_ - 1] = U32(base_ \div 2)]
getMaximum == op_decrement([HugeIntDefault EXCEPT ![numDigits_ - 1] = U32(base_ \div 2)])

\* ------------------------------------------------------------ short division
\* The loop of shortDivide from iteration i on (i runs downwards): the
\* quotient and "partial" when it ends.
RECURSIVE ShortDivideLoop(_, _, _, _, _)
ShortDivideLoop(x, divisor, quotient, partial, i) ==
    IF i >= 0
    THEN LET p == U64(base_ * partial + x[i])
         IN  ShortDivideLoop(x, divisor, [quotient EXCEPT ![i] = U32(p \div divisor)],
                             p % divisor, i - 1)
    ELSE [quotient |-> quotient, partial |-> partial]

\* shortDivide(divisor, &remainder): the quotient and what is stored through
\* the pointer.  The parameter is a std::uint32_t.
shortDivide(x, divisor) ==
    LET end == ShortDivideLoop(x, U32(divisor), HugeIntDefault, 0, numDigits_ - 1)
    IN  [quotient |-> end.quotient, remainder |-> U32(end.partial)]

\* ------------------------------------------------ long division (Knuth D)
\* The HugeInt* const parameter of unsigned_divide: nullptr, or a pointer to a
\* HugeInt that holds val at the call.
NullPtr == [null |-> TRUE, val |-> HugeIntDefault]
PtrTo(h) == [null |-> FALSE, val |-> h]

\* The local copy "dividend" with the slot after its last digit: CASE 3 stores
\* its extra leading digit at index m, which is index numDigits_, one past the
\* array, when every digit of the dividend is significant.
WorkIdx == 0 .. numDigits_
Explicit(f) == CHOOSE g \in {f} : g = f
Working(x) == [i \in WorkIdx |-> IF i < numDigits_ THEN x[i] ELSE 0]

\* "while (vn < (base_ >> 1)) { vn <<= 1; ++shifts; }", vn a std::uint32_t.
RECURSIVE NormalisationShifts(_, _)
NormalisationShifts(vn, shifts) ==
    IF vn < ShiftRight(base_, 1)
    THEN NormalisationShifts(U32(vn * 2), shifts + 1)
    ELSE shifts

\* The divisor scaled by 2^shifts: the loop over i = n-1 .. 1, then digit 0.
NormaliseDivisor(divisor, n, shifts) ==
    [i \in Idx |->
        IF i >= n THEN divisor[i]
        ELSE IF i > 0
        THEN U32(BitOr(U32(divisor[i] * Pow(2, shifts)),
                       ShiftRight(divisor[i - 1], DigitBits - shifts)))
        ELSE U32(divisor[0] * Pow(2, shifts))]

\* The dividend scaled by 2^shifts, its new leading digit at index m.
NormaliseDividend(dividend, m, shifts) ==
  Explicit(
    [i \in WorkIdx |->
        IF i > m THEN dividend[i]
        ELSE IF i = m THEN U32(ShiftRight(dividend[m - 1], DigitBits - shifts))
        ELSE IF i > 0
        THEN U32(BitOr(U32(dividend[i] * Pow(2, shifts)),
                       ShiftRight(dividend[i - 1], DigitBits - shifts)))
        ELSE U32(dividend[0] * Pow(2, shifts))])

\* The loop that refines qhat against the divisor's second digit; count is the
\* number of times its body has run.
RECURSIVE RefineEstimate(_, _, _, _, _, _)
RefineEstimate(qhat, rhat, v1, v2, u2, count) ==
    IF rhat < base_ /\ U64(qhat * v2) > U64(base_ * rhat + u2)
    THEN RefineEstimate(U64(qhat - 1), U64(rhat + v1), v1, v2, u2, count + 1)
    ELSE [qhat |-> qhat, rhat |-> rhat, count |-> count]

\* qhat and rhat of iteration k, after the "qhat == base_" adjustment and the
\* refinement loop.
EstimateDigit(dividend, divisor, n, k) ==
    LET rhat0 == U64(dividend[k + n] * base_ + dividend[k + n - 1])
        qhat0 == rhat0 \div divisor[n - 1]
        rhat1 == rhat0 % divisor[n - 1]
        qhat  == IF qhat0 = base_ THEN U64(qhat0 - 1) ELSE qhat0
        rhat  == IF qhat0 = base_ THEN U64(rhat1 + divisor[n - 1]) ELSE rhat1
    IN  RefineEstimate(qhat, rhat, divisor[n - 1], divisor[n - 2],
                       dividend[k + n - 2], 0)

\* The multiply-and-subtract loop from iteration i on: the dividend and the
\* signed carry when it ends.
RECURSIVE MultiplySubtract(_, _, _, _, _, _, _)
MultiplySubtract(dividend, carry, qhat, divisor, k, n, i) ==
    IF i < n
    THEN LET product   == U64(U32(qhat) * divisor[i])
             widedigit == S64((dividend[k + i] + carry) - (product % base_))
         IN  MultiplySubtract([dividend EXCEPT ![k + i] = U32(widedigit)],
                              S64((widedigit \div base_) - ShiftRight(product, DigitBits)),
                              qhat, divisor, k, n, i + 1)
    ELSE [dividend |-> dividend, carry |-> carry]

\* The add-back loop from iteration i on (widedigit enters as 0).
RECURSIVE AddBack(_, _, _, _, _, _)
AddBack(dividend, widedigit, divisor, k, n, i) ==
    IF i < n
    THEN LET w == S64(widedigit + dividend[k + i] + divisor[i])
         IN  AddBack([dividend EXCEPT ![k + i] = U32(w)], w \div base_,
                     divisor, k, n, i + 1)
    ELSE dividend

\* The end of the add-back branch: the loop, then
\* "dividend.digits_[k + n] += carry;" with the carry of the subtraction.
AddBackCarry(subtracted, carry, divisor, k, n) ==
    LET added == AddBack(subtracted, 0, divisor, k, n, 0)
    IN  [added EXCEPT ![k + n] = U32(added[k + n] + carry)]

\* The state of the main loop after iteration k, from the estimate est, whether
\* the subtraction borrowed, and the working dividend after the iteration.
\* st.qhats, st.refines and st.borrows record, per iteration, the refined
\* estimate, the number of refinement steps and whether the subtraction
\* borrowed; st.befores and st.afters the working dividend when the iteration
\* starts and when it ends.
StoreDigit(st, k, est, borrow, after) ==
    [dividend |-> after,
     quotient |-> [st.quotient EXCEPT ![k] = IF borrow THEN U32(U32(est.qhat) - 1)
                                                      ELSE U32(est.qhat)],
     qhats    |-> Append(st.qhats, est.qhat),
     refines  |-> Append(st.refines, est.count),
     borrows  |-> Append(st.borrows, borrow),
     befores  |-> Append(st.befores, st.dividend),
     afters   |-> Append(st.afters, after)]

\* The rest of iteration k once the product is subtracted: ms is what the
\* multiply-and-subtract loop left.
SettleDigit(st, divisor, n, k, est, ms) ==
    LET widedigit  == S64(ms.dividend[k + n] + ms.carry)
        subtracted == [ms.dividend EXCEPT ![k + n] = U32(widedigit)]
    IN  StoreDigit(st, k, est, widedigit < 0,
                   IF widedigit < 0
                   THEN AddBackCarry(subtracted, ms.carry, divisor, k, n)
                   ELSE subtracted)

\* The rest of iteration k once the quotient digit is estimated.
SubtractProduct(st, divisor, n, k, est) ==
    SettleDigit(st, divisor, n, k, est,
                MultiplySubtract(st.dividend, 0, est.qhat, divisor, k, n, 0))

\* One iteration of the main loop.
DivideIteration(st, divisor, n, k) ==
    SubtractProduct(st, divisor, n, k, EstimateDigit(st.dividend, divisor, n, k))

\* The main loop "for (int k = m - n; k >= 0; --k)" from iteration k on.
RECURSIVE DivideLoop(_, _, _, _)
DivideLoop(st, divisor, n, k) ==
    IF k >= 0
    THEN CHOOSE end \in {DivideLoop(next, divisor, n, k - 1) :
                             next \in {DivideIteration(st, divisor, n, k)}} : TRUE
    ELSE st

\* The remainder of CASE 3: the working dividend shifted back.
Denormalise(rem0, dividend, n, shifts) ==
    [i \in Idx |->
        IF i < n - 1
        THEN U32(BitOr(ShiftRight(dividend[i], shifts),
                       ShiftLeft64(dividend[i + 1], DigitBits - shifts)))
        ELSE IF i = n - 1 THEN ShiftRight(dividend[n - 1], shifts)
        ELSE rem0[i]]

\* A CASE 2 whose loop divides each digit alone, the partial remainder not
\* carried into the next digit.
RECURSIVE Case2Loop_partial_dropped(_, _, _, _, _)
Case2Loop_partial_dropped(dividend, d0, quotient, partial, i) ==
    IF i >= 0
    THEN Case2Loop_partial_dropped(dividend, d0,
                                   [quotient EXCEPT ![i] = U32(dividend[i] \div d0)],
                                   dividend[i] % d0, i - 1)
    ELSE [quotient |-> quotient, partial |-> partial]

\* The loop of CASE 2 from iteration i on (i runs downwards).
RECURSIVE Case2Loop(_, _, _, _, _)
Case2Loop(dividend, d0, quotient, partial, i) ==
    IF i >= 0
    THEN LET p == U64(base_ * partial + dividend[i])
         IN  Case2Loop(dividend, d0, [quotient EXCEPT ![i] = U32(p \div d0)],
                       p % d0, i - 1)
    ELSE [quotient |-> quotient, partial |-> partial]

\* What CASE 3 returns: end is the state the main loop left.
Case3Result(remainder, n, m, shifts, divisor, end) ==
    [quotient  |-> end.quotient,
     remainder |-> Denormalise(remainder.val, end.dividend, n, shifts),
     path |-> "case3",
     qhats |-> end.qhats, refines |-> end.refines, borrows |-> end.borrows,
     befores |-> end.befores, afters |-> end.afters, normalised |-> divisor,
     n |-> n, m |-> m, shifts |-> shifts,
     undefined |-> IF m = numDigits_ THEN "bounds" ELSE "none"]

\* CASE 3 once the divisor is normalised.
Case3Loop(a, remainder, n, m, shifts, divisor) ==
    Case3Result(remainder, n, m, shifts, divisor,
                DivideLoop([dividend |-> NormaliseDividend(Working(a), m, shifts),
                            quotient |-> HugeIntDefault,
                            qhats |-> <<>>, refines |-> <<>>, borrows |-> <<>>,
                            befores |-> <<>>, afters |-> <<>>],
                           divisor, n, m - n))

\* CASE 3 (Knuth's algorithm D), shifts being the normalisation shift.
Case3(a, b, remainder, n, m, shifts) ==
    Case3Loop(a, remainder, n, m, shifts, NormaliseDivisor(b, n, shifts))

\* An unsigned_divide that tests for a zero divisor first and returns zero.
unsigned_divide_zero_tested(a, b, remainder) ==
    LET n == SignificantDigits(b, numDigits_)
        m == SignificantDigits(a, numDigits_)
        none == [qhats |-> <<>>, refines |-> <<>>, borrows |-> <<>>,
                 befores |-> <<>>, afters |-> <<>>, normalised |-> b,
                 n |-> n, m |-> m, shifts |-> 0, undefined |-> "none"]
    IN  IF m < n \/ n = 0
        THEN [quotient  |-> HugeIntDefault,
              remainder |-> [i \in Idx |-> IF i < m THEN a[i] ELSE remainder.val[i]],
              path |-> "case1"] @@ none
        ELSE IF n < 2
        THEN LET end == Case2Loop(a, b[0], HugeIntDefault, 0, m - 1)
             IN  [quotient  |-> end.quotient,
                  remainder |-> [remainder.val EXCEPT ![0] = U32(end.partial)],
                  path |-> "case2"] @@ none
        ELSE Case3(a, b, remainder, n, m, NormalisationShifts(b[n - 1], 0))

\* unsigned_divide(a, b, remainder).  path names the case taken; undefined
\* names the undefined operation the call runs into, if any: "divzero" (CASE 2
\* divides a machine word by divisor.digits_[0] = 0) or "bounds" (CASE 3
\* writes and reads dividend.digits_[numDigits_]); quotient and remainder are
\* then what the call returns if the stray slot behaves as memory of its own.
\* The statement "*remainder == 0LL;" compares and assigns nothing, so the
\* digits of *remainder that a case does not store keep their values.
unsigned_divide(a, b, remainder) ==
    LET n == SignificantDigits(b, numDigits_)
        m == SignificantDigits(a, numDigits_)
        none == [qhats |-> <<>>, refines |-> <<>>, borrows |-> <<>>,
                 befores |-> <<>>, afters |-> <<>>, normalised |-> b,
                 n |-> n, m |-> m, shifts |-> 0, undefined |-> "none"]
    IN  IF m < n
        THEN [quotient  |-> HugeIntDefault,
              remainder |-> [i \in Idx |-> IF i < m THEN a[i] ELSE remainder.val[i]],
              path |-> "case1"] @@ none
        ELSE IF n < 2
        THEN IF m > 0 /\ b[0] = 0
             THEN [quotient |-> HugeIntDefault, remainder |-> remainder.val,
                   path |-> "case2", undefined |-> "divzero"] @@ none
             ELSE LET end == Case2Loop(a, b[0], HugeIntDefault, 0, m - 1)
                  IN  [quotient  |-> end.quotient,
                       remainder |-> [remainder.val EXCEPT ![0] = U32(end.partial)],
                       path |-> "case2"] @@ none
        ELSE Case3(a, b, remainder, n, m, NormalisationShifts(b[n - 1], 0))

\* The highest index at which a call of unsigned_divide reads or writes
\* digits_: the counting loops start at numDigits_ - 1; CASE 3 stores
\* dividend.digits_[m] and reads dividend.digits_[k + n] with k = m - n.
HighestIndex(returned) ==
    IF returned.path = "case3" /\ returned.m > numDigits_ - 1
    THEN returned.m
    ELSE numDigits_ - 1

\* The lowest: index 0, and in CASE 3 also n - 2 (divisor.digits_[n - 2]) and
\* k + n - 2 with k = 0.
LowestIndex(returned) ==
    IF returned.path = "case3" /\ returned.n - 2 < 0 THEN returned.n - 2 ELSE 0

\* ----------------------------------------------------- signed division, modulo
\* operator/ and operator%: value is the result, undefined what the call to
\* unsigned_divide ran into.
Quotient(ud, negate) ==
    [value |-> IF negate THEN op_neg(ud.quotient) ELSE ud.quotient,
     undefined |-> ud.undefined]

op_div(a, b) ==
    IF op_lt(a, HugeInt_ll(0))
    THEN IF op_lt(b, HugeInt_ll(0))
         THEN Quotient(unsigned_divide(op_neg(a), op_neg(b), NullPtr), FALSE)
         ELSE Quotient(unsigned_divide(op_neg(a), b, NullPtr), TRUE)
    ELSE IF op_lt(b, HugeInt_ll(0))
         THEN Quotient(unsigned_divide(a, op_neg(b), NullPtr), TRUE)
         ELSE Quotient(unsigned_divide(a, b, NullPtr), FALSE)

Remainder(ud, negate) ==
    [value |-> IF negate THEN op_neg(ud.remainder) ELSE ud.remainder,
     undefined |-> ud.undefined]

\* "HugeInt remainder;" is zero when its address is passed.
op_mod(a, b) ==
    IF op_lt(a, HugeInt_ll(0))
    THEN IF op_lt(b, HugeInt_ll(0))
         THEN Remainder(unsigned_divide(op_neg(a), op_neg(b), PtrTo(HugeIntDefault)), TRUE)
         ELSE Remainder(unsigned_divide(op_neg(a), b, PtrTo(HugeIntDefault)), TRUE)
    ELSE IF op_lt(b, HugeInt_ll(0))
         THEN Remainder(unsigned_divide(a, op_neg(b), PtrTo(HugeIntDefault)), FALSE)
         ELSE Remainder(unsigned_divide(a, b, PtrTo(HugeIntDefault)), FALSE)

\* ------------------------------------------------------------ text conversion
\* A C string is a sequence of characters (its terminating NUL left out).
DecimalDigits == {"0", "1", "2", "3", "4", "5", "6", "7", "8", "9"}

\* The character code of c, for the characters of the model's strings.
CharCode(c) ==
    CASE c = "0" -> 48 [] c = "1" -> 49 [] c = "2" -> 50 [] c = "3" -> 51
      [] c = "4" -> 52 [] c = "5" -> 53 [] c = "6" -> 54 [] c = "7" -> 55
      [] c = "8" -> 56 [] c = "9" -> 57 [] c = "+" -> 43 [] c = "-" -> 45
      [] c = "," -> 44 [] c = " " -> 32 [] c = "a" -> 97

\* std::isdigit(static_cast<unsigned char>(c)) != 0
isdigit(c) == c \in DecimalDigits

\* is_all_digits without the test for the empty string.
is_all_digits_no_empty_test(str) == \A i \in 1 .. Len(str) : isdigit(str[i])

\* is_all_digits(str): false for the empty string, else whether every
\* character is a digit.
is_all_digits(str) ==
    IF Len(str) = 0 THEN FALSE
    ELSE \A i \in 1 .. Len(str) : isdigit(str[i])

\* str + offset: the string from its character at index offset on.
StringFrom(str, offset) == SubSeq(str, offset + 1, Len(str))

\* The loop of the string constructor from iteration i on: theNumber and
\* powerOfTen when it ends.  str[len - 1 - i] is the (len - i)-th character.
RECURSIVE AccumulateDecimal(_, _, _, _, _)
AccumulateDecimal(str, numDecimalDigits, theNumber, powerOfTen, i) ==
    IF i < numDecimalDigits
    THEN LET digitValue == U32(CharCode(str[Len(str) - i]) - CharCode("0"))
         IN  AccumulateDecimal(str, numDecimalDigits,
                               op_plus(theNumber, shortMultiply(powerOfTen, digitValue)),
                               shortMultiply(powerOfTen, 10), i + 1)
    ELSE theNumber

\* HugeInt::HugeInt(const char* const str): thrown tells whether the
\* constructor leaves by std::invalid_argument, value is the object
\* constructed otherwise.
HugeInt_str(str) ==
    LET len == Len(str)
        plus == len > 0 /\ str[1] = "+"
        flagNegative == len > 0 /\ str[1] = "-"
        offset == (IF plus THEN 1 ELSE 0) + (IF flagNegative THEN 1 ELSE 0)
        numDecimalDigits == len - offset
        theNumber == AccumulateDecimal(str, numDecimalDigits, HugeIntDefault,
                                       HugeInt_ll(1), 0)
    IN  IF len = 0 THEN [thrown |-> TRUE, value |-> HugeIntDefault]
        ELSE IF ~is_all_digits(StringFrom(str, offset))
        THEN [thrown |-> TRUE, value |-> HugeIntDefault]
        ELSE [thrown |-> FALSE,
              value |-> IF flagNegative THEN radixComplement(theNumber) ELSE theNumber]

\* operator<< prints groups of three decimal digits: it divides by 1000, which
\* shortDivide takes as one digit.  The model prints groups of GroupLen decimal
\* digits, the most (up to three) whose modulus 10^GroupLen is one digit of
\* the model's radix.
GroupLen == IF base_ > 1000 THEN 3 ELSE IF base_ > 100 THEN 2 ELSE 1
GroupModulus == Pow(10, GroupLen)

\* The decimal numeral of n >= 0, as "output << n" prints an unsigned value.
RECURSIVE Numeral(_)
Numeral(n) ==
    IF n < 10 THEN <<CHOOSE c \in DecimalDigits : CharCode(c) = 48 + n>>
    ELSE Numeral(n \div 10) \o Numeral(n % 10)

\* std::setw(width) with std::setfill('0'): zeros to the left up to width.
RECURSIVE ZeroFill(_, _)
ZeroFill(str, width) == IF Len(str) < width THEN ZeroFill(<<"0">> \o str, width) ELSE str

\* "while (copy != 0) { copy = copy.shortDivide(1000, &remainder);
\* triples[i++] = remainder; }": the array triples when the loop ends.
RECURSIVE CollectTriples(_, _)
CollectTriples(copy, triples) ==
    IF op_ne(copy, HugeInt_ll(0))
    THEN CollectTriples(shortDivide(copy, GroupModulus).quotient,
                        Append(triples, shortDivide(copy, GroupModulus).remainder))
    ELSE triples

\* A loop that writes the later groups with no fill character set.
RECURSIVE LaterTriples_not_filled(_, _, _)
LaterTriples_not_filled(triples, j, width) ==
    IF j >= 0
    THEN <<",">> \o Numeral(triples[j + 1]) \o LaterTriples_not_filled(triples, j - 1, width)
    ELSE <<>>

\* "for (int j = i - 1; j >= 0; --j) output << ',' << setw(3) << triples[j]"
\* from iteration j on, width being the field width; triples[j] is the
\* (j+1)-th element of the sequence.
RECURSIVE LaterTriples(_, _, _)
LaterTriples(triples, j, width) ==
    IF j >= 0
    THEN <<",">> \o ZeroFill(Numeral(triples[j + 1]), width)
                 \o LaterTriples(triples, j - 1, width)
    ELSE <<>>

\* "--i; output << triples[i];" and the loop over the other groups: what is
\* written for the array the division loop filled.
WriteTriples(triples, width) ==
    Numeral(triples[Len(triples)]) \o LaterTriples(triples, Len(triples) - 2, width)

\* operator<<(output, x): the characters written.
op_out(x) ==
    IF op_eq(x, HugeInt_ll(0)) THEN <<"0">>
    ELSE LET negative == op_lt(x, HugeInt_ll(0))
             copy == IF negative THEN op_neg(x) ELSE x
         IN  (IF negative THEN <<"-">> ELSE <<>>)
             \o WriteTriples(CollectTriples(copy, <<>>), GroupLen)

toDecimalString(x) == op_out(x)

\* operator>>(input, x) on a stream that holds str (no white space in it):
\* x = HugeInt(str.c_str()).
op_in(str) == HugeInt_str(str)

\* ------------------------------------------------------- values and inputs
\* The number of raw values: base_^numDigits_.
Modulus == Pow(base_, numDigits_)

\* sum(digit[i] * base_^i), the digits read as an unsigned number.
RECURSIVE RawUpTo(_, _)
RawUpTo(x, i) == IF i < 0 THEN 0 ELSE x[i] * Pow(base_, i) + RawUpTo(x, i - 1)
RawValue(x) == RawUpTo(x, numDigits_ - 1)

\* The semantic value: raw values from Modulus/2 on denote raw - Modulus.
Value(x) ==
    IF RawValue(x) >= Modulus \div 2 THEN RawValue(x) - Modulus ELSE RawValue(x)

\* The HugeInt whose raw value is v modulo Modulus.
FromValue(v) == [i \in Idx |-> ((v % Modulus) \div Pow(base_, i)) % base_]

\* Operands of the arithmetic: windows around 0, around plus and minus every
\* power of the radix, and around the ends of the range.
Pivots == {0, Modulus \div 2} \cup {Pow(base_, k) : k \in 1 .. (numDigits_ - 1)}
Spread == (-InputSpread) .. InputSpread
Inputs == {FromValue(sign * p + d) : sign \in {-1, 1}, p \in Pivots, d \in Spread}

\* Operands of the comparisons, drawn three at a time: windows around 0 and
\* around the ends of the range.
OrderInputs == {FromValue(p + d) : p \in {0, Modulus \div 2}, d \in Spread}
                 \cup {FromValue(Pow(base_, numDigits_ - 1) + d) : d \in {-1, 0}}

\* Operands of the division.  Magnitudes(digits, len) holds every value of at
\* most len digits, each digit drawn from digits.  Non-negative dividends have
\* at most numDigits_ - 1 digits and divisors at most numDigits_ - 2 (zero is
\* a divisor); the negative operands are the negations of the magnitudes with
\* digits 0 and base_/2; the ends of the range are dividends and minus one is
\* a divisor.
DividendDigits == {0, base_ \div 2, base_ - 1}
DivisorDigits == {0, 1, base_ \div 2}
Magnitudes(digits, len) ==
    {x \in [Idx -> digits] : \A i \in Idx : i >= len => x[i] = 0}
Negated(len) == {op_neg(x) : x \in Magnitudes({0, base_ \div 2}, len)}
Dividends ==
    Magnitudes(DividendDigits, numDigits_ - 1) \cup Negated(numDigits_ - 1)
        \cup {getMinimum, getMaximum}
Divisors ==
    Magnitudes(DivisorDigits, numDigits_ - 2) \cup Negated(numDigits_ - 2)
        \cup {op_neg(HugeInt_ll(1))}

\* Operands of unsigned_divide: the magnitudes that operator/ and operator%
\* hand it.  The dividends are those of the division and the magnitudes of the
\* ends of the range (getMinimum() is its own negation, so its digits are its
\* magnitude); the divisors are nonzero, and every divisor of one digit is
\* among them.
UnsignedDividends ==
    Magnitudes(DividendDigits, numDigits_ - 1) \cup {getMaximum, getMinimum}
OneDigitDivisors == {[HugeIntDefault EXCEPT ![0] = d] : d \in 1 .. (base_ - 1)}
UnsignedDivisors ==
    (Magnitudes(DivisorDigits, numDigits_ - 2) \ {HugeIntDefault}) \cup OneDigitDivisors

\* Characters of the strings handed to the string constructor.
Chars == {"+", "-", "0", "1", "9", ",", "a"}
RECURSIVE StringsOfLen(_)
StringsOfLen(n) ==
    IF n = 0 THEN {<<>>}
    ELSE {Append(str, c) : str \in StringsOfLen(n - 1), c \in Chars}
Strings == UNION {StringsOfLen(n) : n \in 0 .. MaxStrLen}

\* What an undefined division may return.
UndefinedResults == {HugeIntDefault, getMinimum, getMaximum, FromValue(-1)}

\* Arrays of groups as the division by 1000 leaves them in operator<<: one to
\* MaxTriples groups, each below 1000, the most significant one (the last
\* stored) not zero.
MaxTriples == 3
TripleValues == {0, 7, 42, 100, 999}
TripleArrays ==
    UNION {{t \in [1 .. len -> TripleValues] : t[len] # 0} : len \in 1 .. MaxTriples}

\* The caller's two objects when the operators are followed through memory:
\* zero, one, minus one, the ends of the range, and values of two and of four
\* digits of both signs.
ValueInputs ==
    {FromValue(0), FromValue(1), FromValue(-1), getMinimum, getMaximum,
     FromValue(3 * base_ + 5), FromValue(-(base_ + 3)),
     FromValue(Pow(base_, 3) + 7)}

\* ------------------------------------------------------ objects and effects
\* The operators above give what each function computes from the digits it is
\* handed.  Here each function is followed through the objects it reads and
\* writes.  mem maps the name of an object to its digits: "x" and "y" are the
\* caller's objects, the other names the locals and temporaries of the
\* functions (a function's locals are dead when it returns, so one slot per
\* local is enough).  A parameter "const HugeInt&" is the name of an object.
Operands == {"x", "y"}
Locals == {"neg.copy", "minus.negated", "plus.sum", "times.product", "times.partial",
           "assigned", "literal", "cmp.diff", "div.a", "div.b", "div.quotient",
           "ud.dividend", "ud.divisor", "ud.quotient", "mod.remainder",
           "out.copy", "ld.copy", "result"}
Memory(x, y) ==
    Explicit([o \in Operands \cup Locals |->
                 IF o = "x" THEN x ELSE IF o = "y" THEN y ELSE HugeIntDefault])

\* A store of digits into the object obj.
Store(mem, obj, digits) == [mem EXCEPT ![obj] = digits]

\* Statement after statement is written
\*     CHOOSE after \in {F(m) : m \in {E}} : TRUE
\* which is F of the memory m that E leaves, E worked out once.

\* The copy constructor and operator=: dst takes the digits of src.
CopyTo(mem, dst, src) ==
    CHOOSE after \in {Store(m, dst, m[src]) : m \in {mem}} : TRUE

\* this->radixComplement() and this->shiftLeftDigits(num) write *this.
radixComplementAt(mem, this) ==
    CHOOSE after \in {Store(m, this, radixComplement(m[this])) : m \in {mem}} : TRUE
shiftLeftDigitsAt(mem, this, num) ==
    CHOOSE after \in {Store(m, this, shiftLeftDigits(m[this], num)) : m \in {mem}} : TRUE

\* A unary minus that complements *this itself and returns a copy of it.
op_negAt_in_place(mem, this, ret) == CopyTo(radixComplementAt(mem, this), ret, this)

\* this->operator-(), the value returned into ret:
\* "HugeInt copy{*this}; return copy.radixComplement();"
op_negAt(mem, this, ret) ==
    CopyTo(radixComplementAt(CopyTo(mem, "neg.copy", this), "neg.copy"), ret, "neg.copy")

\* operator+(a, b): the loop stores into the local sum, returned into ret.
op_plusAt(mem, a, b, ret) ==
    CopyTo(CHOOSE after \in {Store(m, "plus.sum", op_plus(m[a], m[b])) : m \in {mem}} : TRUE,
           ret, "plus.sum")

\* operator-(a, b): "return a + (-b);"
op_minusAt(mem, a, b, ret) ==
    op_plusAt(op_negAt(mem, b, "minus.negated"), a, "minus.negated", ret)

\* operator+=: "*this = *this + increment;"
op_plus_assignAt(mem, this, increment) ==
    CopyTo(op_plusAt(mem, this, increment, "assigned"), this, "assigned")

\* The loop of operator* from iteration i on:
\* "partial = a.shortMultiply(b.digits_[i]); product += partial.shiftLeftDigits(i);"
RECURSIVE TimesLoopAt(_, _, _, _)
TimesLoopAt(mem, a, b, i) ==
    IF i < numDigits_
    THEN CHOOSE after \in
             {TimesLoopAt(m, a, b, i + 1) :
                 m \in {op_plus_assignAt(
                            shiftLeftDigitsAt(
                                Store(mem, "times.partial", shortMultiply(mem[a], mem[b][i])),
                                "times.partial", i),
                            "times.product", "times.partial")}} : TRUE
    ELSE mem

\* operator*(a, b): "HugeInt product; HugeInt partial;", the loop, the return.
op_timesAt(mem, a, b, ret) ==
    CopyTo(TimesLoopAt(Store(Store(mem, "times.product", HugeIntDefault),
                             "times.partial", HugeIntDefault), a, b, 0),
           ret, "times.product")

\* The relational operators: the memory they leave and the value they return.
\* operator<: "HugeInt diff{lhs - rhs}; return diff.isNegative();"
op_ltAt(mem, lhs, rhs) ==
    CHOOSE after \in {[mem |-> m, value |-> isNegative(m["cmp.diff"])] :
                         m \in {op_minusAt(mem, lhs, rhs, "cmp.diff")}} : TRUE
\* operator==: "HugeInt diff{rhs - lhs}; return diff.isZero();"
op_eqAt(mem, lhs, rhs) ==
    CHOOSE after \in {[mem |-> m, value |-> isZero(m["cmp.diff"])] :
                         m \in {op_minusAt(mem, rhs, lhs, "cmp.diff")}} : TRUE
\* A relational operator that returns the negation of another's result.
Not(compared) ==
    CHOOSE after \in {[c EXCEPT !.value = ~c.value] : c \in {compared}} : TRUE

\* "a < 0" with the temporary HugeInt(0) the conversion constructor builds.
NegativeAt(mem, a) == op_ltAt(Store(mem, "literal", HugeInt_ll(0)), a, "literal")

\* What unsigned_divide leaves in its local dividend: the working dividend of
\* the last iteration, or the copy of a where CASE 3 is not reached.
LocalDividend(returned, a) ==
    IF returned.afters = <<>> THEN a
    ELSE Explicit([i \in Idx |-> returned.afters[Len(returned.afters)][i]])

\* The stores of a call of unsigned_divide that returned: into its locals
\* dividend, divisor and quotient, through remainder (the name of an object,
\* or "nullptr"), and of the value returned into ret.
StoresOfDivide(mem, a, remainder, ret, returned) ==
    [mem |-> Store(Store(Store(Store(
                 IF remainder = "nullptr" THEN mem
                 ELSE Store(mem, remainder, returned.remainder),
                 "ud.dividend", LocalDividend(returned, mem[a])),
                 "ud.divisor", returned.normalised),
                 "ud.quotient", returned.quotient),
                 ret, returned.quotient),
     undefined |-> returned.undefined]

\* unsigned_divide(a, b, remainder): "HugeInt dividend{a}; HugeInt divisor{b};",
\* the normalisation and the main loop on these copies, "HugeInt quotient;".
unsigned_divideAt(mem, a, b, remainder, ret) ==
    CHOOSE after \in
        {StoresOfDivide(m, a, remainder, ret,
                        unsigned_divide(m[a], m[b],
                                        IF remainder = "nullptr" THEN NullPtr
                                        ELSE PtrTo(m[remainder]))) :
            m \in {mem}} : TRUE

\* The four branches of operator/ and operator%: the operands negated into
\* temporaries where they are negative, then unsigned_divide.
DivideMagnitudesAt(mem, a, b, negA, negB, remainder) ==
    IF negA
    THEN IF negB
         THEN unsigned_divideAt(op_negAt(op_negAt(mem, a, "div.a"), b, "div.b"),
                                "div.a", "div.b", remainder, "div.quotient")
         ELSE unsigned_divideAt(op_negAt(mem, a, "div.a"),
                                "div.a", b, remainder, "div.quotient")
    ELSE IF negB
         THEN unsigned_divideAt(op_negAt(mem, b, "div.b"),
                                a, "div.b", remainder, "div.quotient")
         ELSE unsigned_divideAt(mem, a, b, remainder, "div.quotient")

\* The division once both signs are tested: ta and tb are what "a < 0" and
\* "b < 0" returned, tb.mem the memory they leave.
DivideTestedAt(ta, tb, a, b, remainder) ==
    CHOOSE after \in
        {[mem |-> d.mem, undefined |-> d.undefined, negA |-> ta.value, negB |-> tb.value] :
            d \in {DivideMagnitudesAt(tb.mem, a, b, ta.value, tb.value, remainder)}} : TRUE

\* The tests "a < 0" and "b < 0" (the second on what the first leaves), then
\* the division.
SignedDivideAt(mem, a, b, remainder) ==
    CHOOSE after \in
        {DivideTestedAt(ta, NegativeAt(ta.mem, b), a, b, remainder) :
            ta \in {NegativeAt(mem, a)}} : TRUE

\* operator/(a, b): the quotient, negated when one operand is negative.
op_divAt(mem, a, b, ret) ==
    CHOOSE after \in
        {[mem |-> IF d.negA # d.negB
                  THEN op_negAt(d.mem, "div.quotient", ret)
                  ELSE CopyTo(d.mem, ret, "div.quotient"),
          undefined |-> d.undefined] :
            d \in {SignedDivideAt(mem, a, b, "nullptr")}} : TRUE

\* operator%(a, b): "HugeInt remainder;", filled by unsigned_divide and negated
\* when a is negative.
op_modAt(mem, a, b, ret) ==
    CHOOSE after \in
        {[mem |-> IF d.negA
                  THEN op_negAt(d.mem, "mod.remainder", ret)
                  ELSE CopyTo(d.mem, ret, "mod.remainder"),
          undefined |-> d.undefined] :
            d \in {SignedDivideAt(Store(mem, "mod.remainder", HugeIntDefault),
                                  a, b, "mod.remainder")}} : TRUE

\* A binary operator by its token, the value returned into ret.
Defined(mem) == [mem |-> mem, undefined |-> "none"]
BinaryAt(op, mem, a, b, ret) ==
    CASE op = "+" -> Defined(op_plusAt(mem, a, b, ret))
      [] op = "-" -> Defined(op_minusAt(mem, a, b, ret))
      [] op = "*" -> Defined(op_timesAt(mem, a, b, ret))
      [] op = "/" -> op_divAt(mem, a, b, ret)
      [] op = "%" -> op_modAt(mem, a, b, ret)

\* The compound forms: "*this = *this op argument;"
CompoundAt(op, mem, this, argument) ==
    CHOOSE after \in
        {[mem |-> CopyTo(d.mem, this, "assigned"), undefined |-> d.undefined] :
            d \in {BinaryAt(op, mem, this, argument, "assigned")}} : TRUE

\* A relational operator by its token: "!(rhs == lhs)", "rhs < lhs",
\* "!(lhs > rhs)" and "!(lhs < rhs)" for the four that call another.
CompareAt(op, mem, lhs, rhs) ==
    CASE op = "==" -> op_eqAt(mem, lhs, rhs)
      [] op = "!=" -> Not(op_eqAt(mem, rhs, lhs))
      [] op = "<"  -> op_ltAt(mem, lhs, rhs)
      [] op = ">"  -> op_ltAt(mem, rhs, lhs)
      [] op = "<=" -> Not(op_ltAt(mem, rhs, lhs))
      [] op = ">=" -> Not(op_ltAt(mem, lhs, rhs))

\* operator<< once "x == 0" is found false: the test "x < 0", "copy = -x" or
\* "copy = x", and the loop "copy = copy.shortDivide(1000, &remainder)", which
\* ends with copy zero.
DivideCopyAt(mem, x) ==
    CHOOSE after \in
        {Store(IF negative.value
               THEN op_negAt(negative.mem, x, "out.copy")
               ELSE CopyTo(negative.mem, "out.copy", x),
               "out.copy", HugeIntDefault) :
            negative \in {NegativeAt(mem, x)}} : TRUE

\* operator<<(output, x), with the test "x == 0" first.
op_outAt(mem, x) ==
    CHOOSE after \in
        {IF zero.value THEN zero.mem ELSE DivideCopyAt(zero.mem, x) :
            zero \in {op_eqAt(Store(mem, "literal", HugeInt_ll(0)), x, "literal")}} : TRUE

\* operator long double(): "HugeInt copy{*this}; if (copy.isNegative())
\* copy.radixComplement();"; the floating-point sum it returns reads copy.
op_long_doubleAt(mem, this) ==
    CHOOSE after \in
        {IF isNegative(m["ld.copy"]) THEN radixComplementAt(m, "ld.copy") ELSE m :
            m \in {CopyTo(mem, "ld.copy", this)}} : TRUE

\* -------------------------------------------------------------- state machine
\* pc         the statement reached
\* va, vb, vc the operands (HugeInt objects; no operator changes them)
\* res        the HugeInt the last statement produced
\* rem        the remainder, after "rem = va % vb"
\* cmp        the results of the relational operators
\* llx        the long long handed to the conversion constructor
\* text       the string handed to the string constructor
\* out        the characters operator<< wrote
\* thrown     whether the last statement left by std::invalid_argument
\* ud         what the last call of unsigned_divide did and returned
\* sd         what the last call of shortDivide returned
\* triples    the array of decimal groups handed to the output loop
\* call       the operator the last statement applied, and to which objects
VARIABLES pc, va, vb, vc, res, rem, cmp, llx, text, out, thrown, ud, sd, triples, call

vars == <<pc, va, vb, vc, res, rem, cmp, llx, text, out, thrown, ud, sd, triples, call>>

\* No call of unsigned_divide yet.
NoCall == [path |-> "none"]

\* No operator applied yet.
NoOperator == [kind |-> "none"]

\* No call of shortDivide yet.
NoShort == [called |-> FALSE]

NoCmp == [ab |-> FALSE, ba |-> FALSE, bc |-> FALSE, ac |-> FALSE, aa |-> FALSE,
          eq |-> FALSE, ne |-> FALSE, gt |-> FALSE, le |-> FALSE, ge |-> FALSE]

\* The variables that a specification does not use keep their first values.
Idle(used) ==
    /\ "va" \in used \/ va = HugeIntDefault
    /\ "vb" \in used \/ vb = HugeIntDefault
    /\ "vc" \in used \/ vc = HugeIntDefault
    /\ "llx" \in used \/ llx = 0
    /\ "text" \in used \/ text = <<>>
    /\ res = HugeIntDefault
    /\ rem = HugeIntDefault
    /\ cmp = NoCmp
    /\ out = <<>>
    /\ thrown = FALSE
    /\ ud = NoCall
    /\ sd = NoShort
    /\ "triples" \in used \/ triples = <<>>
    /\ call = NoOperator

\* ---- arithmetic on two operands
InitArith ==
    /\ pc = "start"
    /\ va \in Inputs
    /\ vb \in Inputs
    /\ Idle({"va", "vb"})

\* HugeInt res = va + vb;
Plus ==
    /\ pc = "start"
    /\ res' = op_plus(va, vb)
    /\ pc' = "sum"
    /\ UNCHANGED <<va, vb, vc, rem, cmp, llx, text, out, thrown, ud, sd, triples, call>>

\* res -= vb;   (operator-=: *this = *this - decrement)
MinusAssign ==
    /\ pc = "sum"
    /\ res' = op_minus(res, vb)
    /\ pc' = "sum_minus"
    /\ UNCHANGED <<va, vb, vc, rem, cmp, llx, text, out, thrown, ud, sd, triples, call>>

\* HugeInt res = va - vb;
Minus ==
    /\ pc = "start"
    /\ res' = op_minus(va, vb)
    /\ pc' = "difference"
    /\ UNCHANGED <<va, vb, vc, rem, cmp, llx, text, out, thrown, ud, sd, triples, call>>

\* HugeInt res = va - va;
MinusSelf ==
    /\ pc = "start"
    /\ res' = op_minus(va, va)
    /\ pc' = "self_difference"
    /\ UNCHANGED <<va, vb, vc, rem, cmp, llx, text, out, thrown, ud, sd, triples, call>>

\* HugeInt res = va * vb;
Times ==
    /\ pc = "start"
    /\ res' = op_times(va, vb)
    /\ pc' = "product"
    /\ UNCHANGED <<va, vb, vc, rem, cmp, llx, text, out, thrown, ud, sd, triples, call>>

\* HugeInt res = -va;  and then  res = -res;
Negate ==
    /\ pc \in {"start", "negated"}
    /\ res' = IF pc = "start" THEN op_neg(va) ELSE op_neg(res)
    /\ pc' = IF pc = "start" THEN "negated" ELSE "negated_twice"
    /\ UNCHANGED <<va, vb, vc, rem, cmp, llx, text, out, thrown, ud, sd, triples, call>>

NextArith == Plus \/ MinusAssign \/ Minus \/ MinusSelf \/ Times \/ Negate

Spec == InitArith /\ [][NextArith]_vars

\* ---- comparison of three operands
InitOrder ==
    /\ pc = "start"
    /\ va \in OrderInputs
    /\ vb \in OrderInputs
    /\ vc \in OrderInputs
    /\ Idle({"va", "vb", "vc"})

\* bool ab = va < vb, ba = vb < va, bc = vb < vc, ac = va < vc, aa = va < va, eq = va == vb,
\*      ne = va != vb, gt = va > vb, le = va <= vb, ge = va >= vb;
Compare ==
    /\ pc = "start"
    /\ cmp' = [ab |-> op_lt(va, vb), ba |-> op_lt(vb, va), bc |-> op_lt(vb, vc),
               ac |-> op_lt(va, vc), aa |-> op_lt(va, va), eq |-> op_eq(va, vb),
               ne |-> op_ne(va, vb), gt |-> op_gt(va, vb), le |-> op_le(va, vb),
               ge |-> op_ge(va, vb)]
    /\ pc' = "compared"
    /\ UNCHANGED <<va, vb, vc, res, rem, llx, text, out, thrown, ud, sd, triples, call>>

NextOrder == Compare

SpecOrder == InitOrder /\ [][NextOrder]_vars

\* ---- division and modulo (src/main.cpp: quotient = factorial / fibonacci;
\* remainder = factorial % fibonacci)
InitDivision ==
    /\ pc = "start"
    /\ va \in Dividends
    /\ vb \in Divisors
    /\ Idle({"va", "vb"})

\* HugeInt res = va / vb;  When unsigned_divide runs into an undefined
\* operation the program may stop there, or go on with any quotient.
Divide ==
    /\ pc = "start"
    /\ \E q \in {op_div(va, vb)} :
           IF q.undefined = "none"
           THEN /\ res' = q.value
                /\ pc' = "divided"
           ELSE /\ res' \in UndefinedResults \cup {q.value}
                /\ pc' \in {"undefined", "crashed"}
    /\ UNCHANGED <<va, vb, vc, rem, cmp, llx, text, out, thrown, ud, sd, triples, call>>

\* HugeInt rem = va % vb;  (after a division that was defined, so that this
\* one is: it hands unsigned_divide the same operands)
Modulo ==
    /\ pc = "divided"
    /\ rem' = op_mod(va, vb).value
    /\ pc' = "divided_modulo"
    /\ UNCHANGED <<va, vb, vc, res, cmp, llx, text, out, thrown, ud, sd, triples, call>>

\* HugeInt rem = va % vb;  as the first statement.
ModuloFirst ==
    /\ pc = "start"
    /\ \E r \in {op_mod(va, vb)} :
           IF r.undefined = "none"
           THEN /\ rem' = r.value
                /\ pc' = "modulo"
           ELSE /\ rem' \in UndefinedResults \cup {r.value}
                /\ pc' \in {"modulo_undefined", "modulo_crashed"}
    /\ UNCHANGED <<va, vb, vc, res, cmp, llx, text, out, thrown, ud, sd, triples, call>>

NextDivision == Divide \/ Modulo \/ ModuloFirst

SpecDivision == InitDivision /\ [][NextDivision]_vars

\* ---- the operators followed through the caller's objects x (va) and y (vb)
InitValue ==
    /\ pc = "start"
    /\ va \in ValueInputs
    /\ vb \in ValueInputs
    /\ Idle({"va", "vb"})

\* HugeInt res = a op b;  a and b each name x or y.
ApplyBinary ==
    /\ pc = "start"
    /\ \E op \in {"+", "-", "*", "/", "%"}, a \in Operands, b \in Operands :
         \E done \in {BinaryAt(op, Memory(va, vb), a, b, "result")} :
           /\ call' = [kind |-> "binary", op |-> op, left |-> a, right |-> b]
           /\ va' = done.mem["x"]
           /\ vb' = done.mem["y"]
           /\ IF done.undefined = "none"
              THEN /\ res' = done.mem["result"]
                   /\ pc' = "returned"
              ELSE /\ res' \in UndefinedResults \cup {done.mem["result"]}
                   /\ pc' \in {"undefined", "crashed"}
    /\ UNCHANGED <<vc, rem, cmp, llx, text, out, thrown, ud, sd, triples>>

\* a op= b;  When the division is undefined the object assigned to may hold
\* anything.
ApplyCompound ==
    /\ pc = "start"
    /\ \E op \in {"+", "-", "*", "/", "%"}, a \in Operands, b \in Operands :
         \E done \in {CompoundAt(op, Memory(va, vb), a, b)} :
           /\ call' = [kind |-> "compound", op |-> op, left |-> a, right |-> b]
           /\ IF done.undefined = "none"
              THEN /\ va' = done.mem["x"]
                   /\ vb' = done.mem["y"]
                   /\ pc' = "returned"
              ELSE /\ \E stray \in UndefinedResults \cup {done.mem[a]} :
                         /\ va' = IF a = "x" THEN stray ELSE done.mem["x"]
                         /\ vb' = IF a = "y" THEN stray ELSE done.mem["y"]
                   /\ pc' \in {"undefined", "crashed"}
    /\ UNCHANGED <<vc, res, rem, cmp, llx, text, out, thrown, ud, sd, triples>>

\* bool truth = a op b;
ApplyComparison ==
    /\ pc = "start"
    /\ \E op \in {"==", "!=", "<", ">", "<=", ">="}, a \in Operands, b \in Operands :
         \E done \in {CompareAt(op, Memory(va, vb), a, b)} :
           /\ call' = [kind |-> "comparison", op |-> op, left |-> a, right |-> b,
                       truth |-> done.value]
           /\ va' = done.mem["x"]
           /\ vb' = done.mem["y"]
    /\ pc' = "returned"
    /\ UNCHANGED <<vc, res, rem, cmp, llx, text, out, thrown, ud, sd, triples>>

\* HugeInt res = -a;
ApplyUnaryMinus ==
    /\ pc = "start"
    /\ \E a \in Operands :
         \E done \in {op_negAt(Memory(va, vb), a, "result")} :
           /\ call' = [kind |-> "unary", op |-> "-", left |-> a, right |-> a]
           /\ va' = done["x"]
           /\ vb' = done["y"]
           /\ res' = done["result"]
    /\ pc' = "returned"
    /\ UNCHANGED <<vc, rem, cmp, llx, text, out, thrown, ud, sd, triples>>

\* output << a;  and  static_cast<long double>(a);
ApplyConversion ==
    /\ pc = "start"
    /\ \E a \in Operands :
         \/ \E done \in {op_outAt(Memory(va, vb), a)} :
              /\ call' = [kind |-> "conversion", op |-> "<<", left |-> a, right |-> a]
              /\ va' = done["x"]
              /\ vb' = done["y"]
              /\ out' = op_out(done[a])
         \/ \E done \in {op_long_doubleAt(Memory(va, vb), a)} :
              /\ call' = [kind |-> "conversion", op |-> "long double", left |-> a,
                          right |-> a]
              /\ va' = done["x"]
              /\ vb' = done["y"]
              /\ out' = out
    /\ pc' = "returned"
    /\ UNCHANGED <<vc, res, rem, cmp, llx, text, thrown, ud, sd, triples>>

NextValue ==
    ApplyBinary \/ ApplyCompound \/ ApplyComparison \/ ApplyUnaryMinus \/ ApplyConversion

SpecValue == InitValue /\ [][NextValue]_vars

\* ---- conversions: from long long, from a string, to a string and back
InitConversion ==
    \/ /\ pc = "start_ll"
       /\ llx \in LongLongs
       /\ Idle({"llx"})
    \/ /\ pc = "start_str"
       /\ text \in Strings
       /\ Idle({"text"})
    \/ /\ pc = "start_out"
       /\ va \in Inputs
       /\ Idle({"va"})
    \/ /\ pc = "start_triples"
       /\ triples \in TripleArrays
       /\ Idle({"triples"})

\* HugeInt res{llx};
ConstructFromLongLong ==
    /\ pc = "start_ll"
    /\ \E xp \in LlabsOutcomes(llx) : res' = HugeIntFromAbs(llx, xp)
    /\ pc' = "constructed_ll"
    /\ UNCHANGED <<va, vb, vc, rem, cmp, llx, text, out, thrown, ud, sd, triples, call>>

\* HugeInt res{text};
ConstructFromString ==
    /\ pc = "start_str"
    /\ thrown' = HugeInt_str(text).thrown
    /\ res' = HugeInt_str(text).value
    /\ pc' = "constructed_str"
    /\ UNCHANGED <<va, vb, vc, rem, cmp, llx, text, out, ud, sd, triples, call>>

\* out = va.toDecimalString();
Render ==
    /\ pc = "start_out"
    /\ out' = toDecimalString(va)
    /\ pc' = "rendered"
    /\ UNCHANGED <<va, vb, vc, res, rem, cmp, llx, text, thrown, ud, sd, triples, call>>

\* std::istringstream{out} >> res;
ParseRendered ==
    /\ pc = "rendered"
    /\ thrown' = op_in(out).thrown
    /\ res' = op_in(out).value
    /\ pc' = "reparsed"
    /\ UNCHANGED <<va, vb, vc, rem, cmp, llx, text, out, ud, sd, triples, call>>

\* The output statements of operator<< on an array of groups of three decimal
\* digits, the field width 3 of the source.
WriteGroups ==
    /\ pc = "start_triples"
    /\ out' = WriteTriples(triples, 3)
    /\ pc' = "written"
    /\ UNCHANGED <<va, vb, vc, res, rem, cmp, llx, text, thrown, ud, sd, triples, call>>

NextConversion ==
    ConstructFromLongLong \/ ConstructFromString \/ Render \/ ParseRendered
        \/ WriteGroups

SpecConversion == InitConversion /\ [][NextConversion]_vars

\* ---- unsigned_divide called on magnitudes, and shortDivide beside it
InitUnsigned ==
    /\ pc = "start"
    /\ va \in UnsignedDividends
    /\ vb \in UnsignedDivisors
    /\ Idle({"va", "vb"})

\* What is known of a call that stops at the stray store, before the main loop.
StoppedAtStore(returned) ==
    [returned EXCEPT !.qhats = <<>>, !.refines = <<>>, !.borrows = <<>>,
                     !.befores = <<>>, !.afters = <<>>]

\* unsigned_divide(va, vb, &remainder) with "HugeInt remainder;".  A call that
\* stores past the array is undefined: it may return what it would with the
\* stray slot memory of its own, return anything else, or stop at the store.
UnsignedDivide ==
    /\ pc = "start"
    /\ \E returned \in {unsigned_divide(va, vb, PtrTo(HugeIntDefault))} :
           IF returned.undefined = "none"
           THEN /\ ud' = returned
                /\ pc' = "returned"
           ELSE \/ /\ ud' \in {[returned EXCEPT !.quotient = q] :
                                  q \in UndefinedResults \cup {returned.quotient}}
                   /\ pc' = "returned"
                \/ /\ ud' = StoppedAtStore(returned)
                   /\ pc' = "crashed"
    /\ UNCHANGED <<va, vb, vc, res, rem, cmp, llx, text, out, thrown, sd, triples, call>>

\* va.shortDivide(vb.digits_[0], &remainder), for a divisor of one digit.
ShortDivide ==
    /\ pc = "returned"
    /\ SignificantDigits(vb, numDigits_) = 1
    /\ sd' = [called |-> TRUE,
              quotient |-> shortDivide(va, vb[0]).quotient,
              remainder |-> shortDivide(va, vb[0]).remainder]
    /\ pc' = "short_divided"
    /\ UNCHANGED <<va, vb, vc, res, rem, cmp, llx, text, out, thrown, ud, triples, call>>

NextUnsigned == UnsignedDivide \/ ShortDivide

SpecUnsigned == InitUnsigned /\ [][NextUnsigned]_vars

\* ---------------------------------------------------------------- properties
\* C1: for every a and every nonzero b whose division is defined (the
\* dividend's magnitude leaves the top digit free), the quotient res = a / b
\* and the remainder rem = a % b satisfy (a / b) * b + (a % b) == a.
C1_DivModIdentity ==
    (pc = "divided_modulo" /\ ~isZero(vb))
        => /\ op_eq(op_plus(op_times(res, vb), rem), va)
           /\ op_plus(op_times(res, vb), rem) = va

\* A division on the Knuth path (both operands of two or more digits, the
\* dividend below the top digit) has run, and so has the modulo.
C1_KnuthPathDivided ==
    /\ pc = "divided_modulo"
    /\ SignificantDigits(vb, numDigits_) >= 2
    /\ SignificantDigits(va, numDigits_) >= SignificantDigits(vb, numDigits_)
    /\ SignificantDigits(va, numDigits_) < numDigits_

\* C2: for every x, the constructor from a decimal string accepts the text
\* the renderer wrote for x, and the value it builds equals x.
C2_RoundTrip ==
    pc = "reparsed" => (~thrown /\ op_eq(res, va) /\ res = va)

\* A value of more than one group of decimal digits was rendered and the text
\* handed to the parser.
C2_SeveralGroupsReparsed ==
    /\ pc = "reparsed"
    /\ Len(out) > GroupLen + 1

\* C3: operator< is irreflexive, asymmetric and transitive on every a, b, c,
\* the ends of the range included.
C3_StrictWeakOrder ==
    pc = "compared"
        => /\ ~cmp.aa
           /\ ~(cmp.ab /\ cmp.ba)
           /\ (cmp.ab /\ cmp.bc) => cmp.ac

\* Three operands were compared, one of them the minimum, one the maximum.
C3_ComparedAtTheEnds ==
    /\ pc = "compared"
    /\ va = getMinimum
    /\ vc = getMaximum

\* C4: a < b exactly when b - a is strictly positive (neither zero nor
\* negative).
C4_LessIffDifferencePositive ==
    pc = "compared"
        => (cmp.ab <=> (~isZero(op_minus(vb, va)) /\ ~isNegative(op_minus(vb, va))))

\* Two operands whose difference is the minimum were compared.
C4_ComparedDifferenceMinimum ==
    /\ pc = "compared"
    /\ op_minus(va, vb) = getMinimum

\* C5: the string constructor succeeds exactly on an optional single leading
\* '+' or '-' followed by one or more digits; on every other string it throws
\* std::invalid_argument and no object comes to be.
C5_AcceptsExactlyTheGrammar ==
    pc = "constructed_str"
        => LET signed   == Len(text) > 0 /\ Head(text) \in {"+", "-"}
               numerals == IF signed THEN Tail(text) ELSE text
               wellFormed ==
                   /\ Len(numerals) >= 1
                   /\ \A i \in 1 .. Len(numerals) : numerals[i] \in DecimalDigits
           IN  /\ thrown <=> ~wellFormed
               /\ thrown => res = HugeIntDefault

\* A string with a doubled sign was refused.
C5_DoubledSignRefused ==
    /\ pc = "constructed_str"
    /\ Len(text) = 3
    /\ text[1] = "-" /\ text[2] = "-" /\ isdigit(text[3])
    /\ thrown

\* C6: for every long long x, the most negative included, HugeInt(x) has the
\* value x.
C6_ValueOfLongLong ==
    pc = "constructed_ll" => Value(res) = llx

\* The most negative long long was converted.
C6_MostNegativeConverted ==
    /\ pc = "constructed_ll"
    /\ llx = LLONG_MIN

\* Whether the product of the values of x and y is representable; the first
\* test keeps the multiplication within the 32-bit integers of TLC.
ProductFits(x, y) ==
    \/ Value(y) = 0
    \/ /\ llabs(Value(x)) <= (Modulus \div 2) \div llabs(Value(y))
       /\ Value(x) * Value(y) >= -(Modulus \div 2)
       /\ Value(x) * Value(y) < Modulus \div 2

\* C7: when the product of the values of a and b is representable, a * b has
\* that value, whatever the signs; a * 1 is a and a * 0 is zero.
C7_ProductWhenItFits ==
    pc = "product"
        => /\ ProductFits(va, vb) => Value(res) = Value(va) * Value(vb)
           /\ vb = HugeInt_ll(1) => res = va
           /\ isZero(vb) => isZero(res)

\* Operands of opposite signs, each of magnitude above one, were multiplied
\* and the product is representable.
C7_MixedSignsMultiplied ==
    /\ pc = "product"
    /\ Value(va) < -1
    /\ Value(vb) > 1
    /\ ProductFits(va, vb)
    /\ Value(res) = Value(va) * Value(vb)

\* C8: (a + b) - b is a and a - a is zero for all a and b, when a + b
\* overflows and when b is the minimum included.
C8_AddThenSubtract ==
    /\ pc = "sum_minus" => (res = va /\ op_eq(res, va))
    /\ pc = "self_difference" => (res = HugeIntDefault /\ isZero(res))

\* The minimum was added to the minimum (the sum overflows) and taken away
\* again.
C8_MinimumAddedAndSubtracted ==
    /\ pc = "sum_minus"
    /\ va = getMinimum
    /\ vb = getMinimum
    /\ res = va

\* C9: the raw value of a + b is (raw(a) + raw(b)) mod base^N; the maximum
\* plus one is the minimum and the minimum minus one is the maximum.
C9_SumModulo ==
    /\ pc = "sum" => RawValue(res) = (RawValue(va) + RawValue(vb)) % Modulus
    /\ (pc = "sum" /\ va = getMaximum /\ vb = HugeInt_ll(1)) => res = getMinimum
    /\ (pc = "difference" /\ va = getMinimum /\ vb = HugeInt_ll(1)) => res = getMaximum

\* One was added to the maximum and the sum is the minimum.
C9_MaximumPlusOne ==
    /\ pc = "sum"
    /\ va = getMaximum
    /\ vb = HugeInt_ll(1)
    /\ res = getMinimum

\* C10: negating twice restores every digit of x, and negating zero leaves
\* it zero.
C10_ComplementInvolution ==
    /\ pc = "negated_twice" => res = va
    /\ (pc = "negated" /\ isZero(va)) => res = va

\* The minimum was negated twice.
C10_MinimumNegatedTwice ==
    /\ pc = "negated_twice"
    /\ va = getMinimum
    /\ res = getMinimum

\* C11: for every a and nonzero b, a / b is zero or is negative exactly when
\* one of a and b is negative, and a % b is zero or has the sign of a.
C11_SignsOfQuotientAndRemainder ==
    /\ (pc \in {"divided", "divided_modulo"} /\ ~isZero(vb))
           => (isZero(res) \/ (isNegative(res) <=> (isNegative(va) # isNegative(vb))))
    /\ (pc = "divided_modulo" /\ ~isZero(vb))
           => (isZero(rem) \/ (isNegative(rem) <=> isNegative(va)))

\* A negative dividend was divided by a negative divisor, the quotient and the
\* remainder taken.
C11_NegativeByNegativeDivided ==
    /\ pc = "divided_modulo"
    /\ isNegative(va)
    /\ isNegative(vb)
    /\ ~isZero(res)

\* C12: for every non-negative dividend and every divisor of one nonzero digit,
\* shortDivide and unsigned_divide return the same quotient and the same
\* remainder; unsigned_divide takes its n = 1 branch (its m < n branch for a
\* zero dividend) and never its Knuth branch.
C12_ShortDivisionsAgree ==
    pc = "short_divided"
        => /\ ud.quotient = sd.quotient
           /\ ud.remainder = [HugeIntDefault EXCEPT ![0] = sd.remainder]
           /\ ud.path = (IF isZero(va) THEN "case1" ELSE "case2")

\* A dividend with every digit significant was divided both ways by a digit
\* that leaves a remainder.
C12_AllDigitsDividedByOneDigit ==
    /\ pc = "short_divided"
    /\ ud.path = "case2"
    /\ ud.m = numDigits_
    /\ vb[0] > 1
    /\ sd.remainder # 0
    /\ ~isZero(sd.quotient)

\* C12 as stated: for a divisor of one nonzero digit the Knuth branch of
\* unsigned_divide produces the quotient and remainder of the short division.
C12_KnuthBranchAgrees ==
    pc = "short_divided"
        => /\ ud.path = "case3"
           /\ ud.quotient = sd.quotient
           /\ ud.remainder = [HugeIntDefault EXCEPT ![0] = sd.remainder]

\* C13: a nonzero dividend divided by zero, or taken modulo zero, runs into the
\* undefined machine division: nothing is thrown and there is no defined
\* result.  With a zero dividend no machine division is executed, and 0 / 0
\* and 0 % 0 are zero, nothing thrown.
C13_ZeroDivisorUnguarded ==
    (isZero(vb) /\ pc # "start")
        => /\ ~thrown
           /\ IF isZero(va)
              THEN /\ pc \in {"divided", "divided_modulo", "modulo"}
                   /\ isZero(res)
                   /\ isZero(rem)
              ELSE pc \in {"undefined", "crashed", "modulo_undefined", "modulo_crashed"}

\* A negative dividend was taken modulo zero, and the program went on.
C13_NegativeModuloZero ==
    /\ pc = "modulo_undefined"
    /\ isZero(vb)
    /\ isNegative(va)

\* C13 as stated: for every dividend, dividing by zero or taking modulo zero
\* runs into the undefined machine division.
C13_EveryDividendUndefined ==
    (isZero(vb) /\ pc # "start")
        => /\ ~thrown
           /\ pc \in {"undefined", "crashed", "modulo_undefined", "modulo_crashed"}

RECURSIVE FixedWidth(_, _)
FixedWidth(n, width) ==
    IF width = 0 THEN <<>>
    ELSE FixedWidth(n \div 10, width - 1)
             \o <<CHOOSE c \in DecimalDigits : CharCode(c) = 48 + (n % 10)>>

\* The groups of width decimal digits of n > 0, most significant first: the
\* first as short as it can be, the others in width characters after a comma.
RECURSIVE Grouped(_, _)
Grouped(n, width) ==
    IF n < Pow(10, width) THEN Numeral(n)
    ELSE Grouped(n \div Pow(10, width), width) \o <<",">>
             \o FixedWidth(n % Pow(10, width), width)

\* The groups j, j - 1, .. 1 of the array t, each in three characters after a
\* comma.
RECURSIVE LaterGroups(_, _)
LaterGroups(t, j) ==
    IF j = 0 THEN <<>> ELSE <<",">> \o FixedWidth(t[j], 3) \o LaterGroups(t, j - 1)

\* C15: the text written for x is "0" when x is zero, and otherwise a '-'
\* exactly when x is negative, then the decimal groups of |x|, most
\* significant first, the first without leading zeros and not zero, each later
\* one in its full width after a ','; the minimum included.  The output
\* statements write groups of three digits so from the array of groups.
C15_RenderedInGroups ==
    /\ pc = "rendered"
           => out = (IF Value(va) = 0 THEN <<"0">>
                     ELSE IF Value(va) < 0
                     THEN <<"-">> \o Grouped(-Value(va), GroupLen)
                     ELSE Grouped(Value(va), GroupLen))
    /\ pc = "written"
           => /\ out = Numeral(triples[Len(triples)])
                        \o LaterGroups(triples, Len(triples) - 1)
              /\ Len(out) = Len(Numeral(triples[Len(triples)])) + 4 * (Len(triples) - 1)
              /\ out[1] # "0"

\* The minimum was rendered: a sign and several groups.
C15_MinimumRendered ==
    /\ pc = "rendered"
    /\ va = getMinimum
    /\ out[1] = "-"
    /\ Len(out) > 1 + 2 * (GroupLen + 1)

\* The digits k .. k + n of a working dividend, read as a number.
RECURSIVE Window(_, _, _)
Window(w, k, n) == IF n < 0 THEN 0 ELSE w[k + n] * Pow(base_, n) + Window(w, k, n - 1)

\* The index k of the quotient digit that iteration j (the first is 1) of the
\* main loop of the last call produced.
DigitOf(j) == ud.m - ud.n - (j - 1)

\* The true quotient digit of iteration j: its window before the step, divided
\* by the normalised divisor.
TrueDigit(j) ==
    Window(ud.befores[j], DigitOf(j), ud.n) \div RawValue(ud.normalised)

\* C16: on the Knuth path (b of n >= 2 digits, a of m >= n digits) the
\* quotient q and remainder r returned satisfy a = q*b + r and 0 <= r < b,
\* that is, q and r are the integer quotient and remainder of a by b.
C16_KnuthPostcondition ==
    (pc = "returned" /\ ud.path = "case3")
        => /\ RawValue(ud.quotient) = RawValue(va) \div RawValue(vb)
           /\ RawValue(ud.remainder) = RawValue(va) % RawValue(vb)

\* A Knuth division that took an add-back returned the right quotient and
\* remainder.
C16_AddBackTaken ==
    /\ pc = "returned"
    /\ ud.path = "case3"
    /\ ud.undefined = "none"
    /\ \E j \in 1 .. Len(ud.borrows) : ud.borrows[j]
    /\ RawValue(ud.quotient) = RawValue(va) \div RawValue(vb)
    /\ RawValue(ud.remainder) = RawValue(va) % RawValue(vb)

\* C17: in every iteration of the main loop the estimate, after the
\* adjustment and the refinement loop, is at most base_ - 1.
C17_EstimateIsOneDigit ==
    (pc = "returned" /\ ud.path = "case3")
        => \A j \in 1 .. Len(ud.qhats) : ud.qhats[j] <= base_ - 1

\* A Knuth division of several iterations whose refinement loop ran.
C17_EstimateRefined ==
    /\ pc = "returned"
    /\ ud.path = "case3"
    /\ Len(ud.qhats) >= 2
    /\ \E j \in 1 .. Len(ud.refines) : ud.refines[j] >= 1

\* C18: in every iteration the refined estimate is the true quotient digit
\* q_k of the window or q_k + 1; the subtraction borrows exactly when it is
\* q_k + 1; and the iteration leaves in the window the true partial remainder,
\* which is less than the divisor.
C18_EstimateWithinOne ==
    (pc = "returned" /\ ud.path = "case3")
        => \A j \in 1 .. Len(ud.qhats) :
               /\ TrueDigit(j) <= ud.qhats[j]
               /\ ud.qhats[j] <= TrueDigit(j) + 1
               /\ ud.borrows[j] <=> (ud.qhats[j] = TrueDigit(j) + 1)
               /\ Window(ud.afters[j], DigitOf(j), ud.n)
                      = Window(ud.befores[j], DigitOf(j), ud.n) % RawValue(ud.normalised)
               /\ Window(ud.afters[j], DigitOf(j), ud.n) < RawValue(ud.normalised)

\* An iteration estimated one too much, borrowed and added the divisor back.
C18_OneTooLargeAddedBack ==
    /\ pc = "returned"
    /\ ud.path = "case3"
    /\ ud.undefined = "none"
    /\ \E j \in 1 .. Len(ud.qhats) :
           /\ ud.borrows[j]
           /\ ud.qhats[j] = TrueDigit(j) + 1

\* C19: every call with a nonzero divisor returns; on the Knuth path the
\* normalisation loop runs at most DigitBits - 1 times, the refinement loop at
\* most twice per quotient digit, and the main loop exactly m - n + 1 times.
C19_LoopsBounded ==
    (pc # "start" /\ ud.path # "none")
        => /\ pc # "crashed"
           /\ ud.path = "case3"
                  => /\ ud.shifts <= DigitBits - 1
                     /\ \A j \in 1 .. Len(ud.refines) : ud.refines[j] <= 2
                     /\ Len(ud.qhats) = ud.m - ud.n + 1

\* A divisor whose top digit is 1 was shifted DigitBits - 1 times, and the
\* refinement loop ran twice for some digit.
C19_MostShiftsAndRefinements ==
    /\ pc = "returned"
    /\ ud.path = "case3"
    /\ ud.undefined = "none"
    /\ ud.shifts = DigitBits - 1
    /\ \E j \in 1 .. Len(ud.refines) : ud.refines[j] = 2

\* C20: every index at which a call reads or writes digits_ lies in
\* 0 .. numDigits_ - 1, also when every digit of the dividend is significant
\* and the divisor has several digits.
C20_IndicesInRange ==
    (pc # "start" /\ ud.path # "none")
        => /\ 0 <= LowestIndex(ud)
           /\ HighestIndex(ud) <= numDigits_ - 1

\* The maximum was divided by a divisor of several digits.
C20_AllDigitsByMultiDigit ==
    /\ pc \in {"returned", "crashed"}
    /\ va = getMaximum
    /\ ud.path = "case3"
    /\ ud.m = numDigits_
    /\ ud.n >= 2

\* The values a HugeInt can hold.
Representable(v) == -(Modulus \div 2) <= v /\ v <= Modulus \div 2 - 1

\* C21: whenever value(a) - value(b) is representable, the six relational
\* operators agree with the order of the values: a < b iff value(a) < value(b)
\* (and likewise >, <=, >=), a == b iff all digits are equal (a != b iff some
\* digit differs), and exactly one of a < b, a == b, a > b holds.
C21_RelationalAgreeWithValues ==
    (pc = "compared" /\ Representable(Value(va) - Value(vb)))
        => /\ cmp.ab <=> Value(va) < Value(vb)
           /\ cmp.gt <=> Value(va) > Value(vb)
           /\ cmp.le <=> Value(va) <= Value(vb)
           /\ cmp.ge <=> Value(va) >= Value(vb)
           /\ cmp.eq <=> (\A i \in Idx : va[i] = vb[i])
           /\ cmp.ne <=> (\E i \in Idx : va[i] # vb[i])
           /\ \/ cmp.ab /\ ~cmp.eq /\ ~cmp.gt
              \/ ~cmp.ab /\ cmp.eq /\ ~cmp.gt
              \/ ~cmp.ab /\ ~cmp.eq /\ cmp.gt

\* Two operands were compared whose difference is the least representable
\* value.
C21_ComparedDifferenceLeast ==
    /\ pc = "compared"
    /\ Value(va) - Value(vb) = -(Modulus \div 2)

====
